---- MODULE Spec2Model ----
(***************************************************************************)
(* ExtractHtmlContentPlugin: CSS-selector driven content extraction with   *)
(* selector-base inference, row alignment and cross-pass deduplication.    *)
(*                                                                         *)
(* JavaScript strings are sequences of one-character strings, so that      *)
(* split, join, startsWith, replace and trim are computed and not assumed. *)
(* The absent value (null / undefined) is Null.                            *)
(***************************************************************************)
EXTENDS Naturals, Sequences, FiniteSets

VARIABLES
    opts,        \* this.opts: [selectorPairs |-> sequence of selector pairs]
    document,    \* this.document: the tree handed to the last apply
    content,     \* this.content: Set<string> of join keys already scraped
    passes,      \* history: one record per completed apply call
    selectorsIn, \* getSelectorBase harness: the selector pairs given
    baseOut,     \* getSelectorBase harness: <<result>> once computed
    alignIn,     \* transformToContentRows harness: the argument as passed
    alignArg,    \* transformToContentRows harness: the argument after the call
    alignOut     \* transformToContentRows harness: <<rows>> once computed

vars == <<opts, document, content, passes, selectorsIn, baseOut, alignIn, alignArg, alignOut>>

engineVars == <<opts, document, content, passes>>
baseVars == <<selectorsIn, baseOut>>
alignVars == <<alignIn, alignArg, alignOut>>

-----------------------------------------------------------------------------
(* Bounds of the model *)

MaxPasses == 2     \* apply calls on one instance
MaxElems == 2      \* top-level elements of a tree
MaxKids == 1       \* child elements of one top-level element
MaxTokens == 2     \* fragments of one generated selector
MaxPairs == 2      \* selector pairs given to getSelectorBase
MaxCols == 2       \* value lists given to transformToContentRows
MaxLen == 3        \* length of one such value list

-----------------------------------------------------------------------------
(* JavaScript values and string operations *)

Null == <<"null">>

Empty == <<>>

\* JavaScript truthiness of a string-or-absent value
Truthy(v) == v # Null /\ v # Empty

SeqsUpTo(S, n) == UNION {[1..k -> S] : k \in 0..n}

Front(s) == SubSeq(s, 1, Len(s) - 1)

Last(s) == s[Len(s)]

startsWith(s, p) == Len(p) <= Len(s) /\ SubSeq(s, 1, Len(p)) = p

\* first index at which p occurs in s, 0 when it does not
indexOf(s, p) ==
    LET hits == {i \in 1..(Len(s) + 1) : i + Len(p) - 1 <= Len(s) /\ SubSeq(s, i, i + Len(p) - 1) = p}
    IN IF hits = {} THEN 0 ELSE CHOOSE i \in hits : \A j \in hits : i <= j

\* String.prototype.replace with a string pattern: the first occurrence only
replace(s, p, r) ==
    LET i == indexOf(s, p)
    IN IF i = 0 THEN s ELSE SubSeq(s, 1, i - 1) \o r \o SubSeq(s, i + Len(p), Len(s))

RECURSIVE trimStart(_)
trimStart(s) == IF s # Empty /\ Head(s) = " " THEN trimStart(Tail(s)) ELSE s

RECURSIVE trimEnd(_)
trimEnd(s) == IF s # Empty /\ Last(s) = " " THEN trimEnd(Front(s)) ELSE s

trim(s) == trimEnd(trimStart(s))

\* String.prototype.split with a one-character separator
RECURSIVE split(_, _)
split(s, sep) ==
    LET i == indexOf(s, sep)
    IN IF i = 0 THEN <<s>>
       ELSE <<SubSeq(s, 1, i - 1)>> \o split(SubSeq(s, i + Len(sep), Len(s)), sep)

\* Array.prototype.join: null and undefined elements are joined as ''
RECURSIVE join(_, _)
join(arr, sep) ==
    LET str(v) == IF v = Null THEN Empty ELSE v
    IN IF arr = <<>> THEN Empty
       ELSE IF Len(arr) = 1 THEN str(arr[1])
       ELSE str(arr[1]) \o sep \o join(Tail(arr), sep)

RECURSIVE filterTruthy(_)
filterTruthy(vals) ==
    IF vals = <<>> THEN <<>>
    ELSE IF Truthy(Head(vals)) THEN <<Head(vals)>> \o filterTruthy(Tail(vals))
    ELSE filterTruthy(Tail(vals))

RECURSIVE concat(_)
concat(lists) == IF lists = <<>> THEN <<>> ELSE Head(lists) \o concat(Tail(lists))

Max(S) == CHOOSE m \in S : \A n \in S : n <= m

-----------------------------------------------------------------------------
(* The document tree (IDomNode): elements carry a tag name, the value of   *)
(* their innerText property and their child elements.  A node handle is an *)
(* element with the tag names of its ancestors, outermost first.           *)

RECURSIVE walk(_, _)
walk(elms, anc) ==
    IF elms = <<>> THEN <<>>
    ELSE LET e == Head(elms)
         IN <<[elm |-> e, anc |-> anc]>> \o walk(e.kids, Append(anc, e.cls)) \o walk(Tail(elms), anc)

\* the compound selectors of a descendant-combinator selector
RECURSIVE nonEmpty(_)
nonEmpty(frags) ==
    IF frags = <<>> THEN <<>>
    ELSE IF Head(frags) = Empty THEN nonEmpty(Tail(frags))
    ELSE <<Head(frags)>> \o nonEmpty(Tail(frags))

RECURSIVE ancestorsMatch(_, _)
ancestorsMatch(toks, anc) ==
    IF toks = <<>> THEN TRUE
    ELSE IF anc = <<>> THEN FALSE
    ELSE IF Last(anc) = Last(toks) THEN ancestorsMatch(Front(toks), Front(anc))
    ELSE ancestorsMatch(toks, Front(anc))

matches(node, selector) ==
    LET toks == nonEmpty(split(selector, <<" ">>))
    IN toks # <<>> /\ node.elm.cls = Last(toks) /\ ancestorsMatch(Front(toks), node.anc)

RECURSIVE selectNodes(_, _)
selectNodes(nodes, selector) ==
    IF nodes = <<>> THEN <<>>
    ELSE IF matches(Head(nodes), selector) THEN <<Head(nodes)>> \o selectNodes(Tail(nodes), selector)
    ELSE selectNodes(Tail(nodes), selector)

\* document.querySelectorAll(selector): matching elements in document order
querySelectorAll(doc, selector) == selectNodes(walk(doc, <<>>), selector)

\* baseElm.querySelectorAll(selector): matching descendants of baseElm
elmQuerySelectorAll(node, selector) ==
    selectNodes(walk(node.elm.kids, Append(node.anc, node.elm.cls)), selector)

\* elm.getAttribute(contentProperty)
getAttribute(node, contentProperty) ==
    IF contentProperty = "innerText" THEN node.elm.val ELSE Null

-----------------------------------------------------------------------------
(* ExtractHtmlContentPlugin *)

\* elm => { const attr = elm.getAttribute(p); return attr ? attr.trim() : attr; }
readValue(node, contentProperty) ==
    LET attr == getAttribute(node, contentProperty)
    IN IF Truthy(attr) THEN trim(attr) ELSE attr

readValues(nodes, contentProperty) ==
    [k \in 1..Len(nodes) |-> readValue(nodes[k], contentProperty)]

RECURSIVE selectorBaseLoop(_, _, _, _)
selectorBaseLoop(selectors, cssFragments, i, selectorBase) ==
    IF i > Len(cssFragments) THEN selectorBase
    ELSE LET checkBase == join(SubSeq(cssFragments, 1, i), <<" ">>)
         IN IF \E j \in 1..Len(selectors) : ~startsWith(selectors[j], checkBase)
            THEN selectorBase
            ELSE selectorBaseLoop(selectors, cssFragments, i + 1, checkBase)

getSelectorBase(selectorPairs) ==
    LET selectors == [j \in 1..Len(selectorPairs) |-> selectorPairs[j].contentSelector]
        cssFragments == split(selectors[1], <<" ">>)
    IN selectorBaseLoop(selectors, cssFragments, 1, Null)

\* variant of padLists: pads with the first value instead of the last
padListsFirstVal(contentBySelector) ==
    LET maxLength == Max({Len(contentBySelector[i]) : i \in 1..Len(contentBySelector)})
    IN [i \in 1..Len(contentBySelector) |->
          LET selectorContent == contentBySelector[i]
          IN IF Len(selectorContent) < maxLength
             THEN LET lastVal == IF Len(selectorContent) > 0 THEN Head(selectorContent) ELSE Empty
                  IN selectorContent \o [k \in 1..(maxLength - Len(selectorContent)) |-> lastVal]
             ELSE selectorContent]

\* make all selector results of equal length (the argument is changed in place)
padLists(contentBySelector) ==
    LET maxLength == Max({Len(contentBySelector[i]) : i \in 1..Len(contentBySelector)})
    IN [i \in 1..Len(contentBySelector) |->
          LET selectorContent == contentBySelector[i]
          IN IF Len(selectorContent) < maxLength
             THEN LET lastVal == IF Len(selectorContent) > 0 THEN Last(selectorContent) ELSE Empty
                  IN selectorContent \o [k \in 1..(maxLength - Len(selectorContent)) |-> lastVal]
             ELSE selectorContent]

\* variant of transformToContentRows: one row per element of the first list
transformToContentRowsFirstLen(contentBySelector) ==
    LET maxLength == Len(contentBySelector[1])
        padded == padLists(contentBySelector)
    IN [idx \in 1..maxLength |-> [i \in 1..Len(padded) |-> padded[i][idx]]]

transformToContentRows(contentBySelector) ==
    LET maxLength == Max({Len(contentBySelector[i]) : i \in 1..Len(contentBySelector)})
        padded == padLists(contentBySelector)
    IN [idx \in 1..maxLength |-> [i \in 1..Len(padded) |-> padded[i][idx]]]

\* variant of inferSelectorBase: the guard admits a single selector pair
inferSelectorBaseAnyLength(selectorPairs, doc) ==
    IF Len(selectorPairs) > 0
    THEN LET potentialSelectorBase == getSelectorBase(selectorPairs)
         IN IF Truthy(potentialSelectorBase) /\ Len(querySelectorAll(doc, potentialSelectorBase)) > 0
            THEN potentialSelectorBase
            ELSE Null
    ELSE Null

\* lines 83-89: the base used by the pass, Null when none
inferSelectorBase(selectorPairs, doc) ==
    IF Len(selectorPairs) > 1
    THEN LET potentialSelectorBase == getSelectorBase(selectorPairs)
         IN IF Truthy(potentialSelectorBase) /\ Len(querySelectorAll(doc, potentialSelectorBase)) > 0
            THEN potentialSelectorBase
            ELSE Null
    ELSE Null

\* lines 99-110: the value lists of one base element
scopedLists(baseElm, selectorPairs, selectorBase) ==
    [i \in 1..Len(selectorPairs) |->
        LET suffixSelector == trim(replace(selectorPairs[i].contentSelector, selectorBase, Empty))
        IN filterTruthy(readValues(elmQuerySelectorAll(baseElm, suffixSelector),
                                   selectorPairs[i].contentProperty))]

\* lines 128-134: the value lists of the whole tree
globalLists(doc, selectorPairs) ==
    [i \in 1..Len(selectorPairs) |->
        readValues(querySelectorAll(doc, selectorPairs[i].contentSelector),
                   selectorPairs[i].contentProperty)]

\* lines 112-119: the rows one base element adds
baseElmRows(contentBySelector) ==
    IF \E i \in 1..Len(contentBySelector) : Len(contentBySelector[i]) > 0
    THEN transformToContentRows(contentBySelector)
    ELSE <<>>

\* extractContent, with the base chosen and the lists read kept for inspection
extractContent(doc, selectorPairs) ==
    LET selectorBase == inferSelectorBase(selectorPairs, doc)
    IN IF Truthy(selectorBase)
       THEN LET baseElms == querySelectorAll(doc, selectorBase)
                lists == [b \in 1..Len(baseElms) |-> scopedLists(baseElms[b], selectorPairs, selectorBase)]
            IN [selectorBase |-> selectorBase,
                lists |-> lists,
                content |-> concat([b \in 1..Len(baseElms) |-> baseElmRows(lists[b])])]
       ELSE LET contentBySelector == globalLists(doc, selectorPairs)
            IN [selectorBase |-> Null,
                lists |-> <<contentBySelector>>,
                content |-> transformToContentRows(contentBySelector)]

joinKey(contentRow) == join(contentRow, <<",">>)

RECURSIVE diffAndMergeLoop(_, _, _)
diffAndMergeLoop(currentContent, seen, kept) ==
    IF currentContent = <<>> THEN [rows |-> kept, content |-> seen]
    ELSE LET joinedContent == joinKey(Head(currentContent))
         IN IF joinedContent \notin seen
            THEN diffAndMergeLoop(Tail(currentContent), seen \cup {joinedContent}, Append(kept, Head(currentContent)))
            ELSE diffAndMergeLoop(Tail(currentContent), seen, kept)

\* variant of diffAndMerge: the seen-set is never consulted
diffAndMergeNoCheck(currentContent, seen) ==
    [rows |-> currentContent,
     content |-> seen \cup {joinKey(currentContent[i]) : i \in 1..Len(currentContent)}]

\* variant of diffAndMerge: new keys are never recorded
diffAndMergeNoAdd(currentContent, seen) ==
    [rows |-> diffAndMergeLoop(currentContent, seen, <<>>).rows, content |-> seen]

\* variant of diffAndMerge: rows are filtered against the set as it was before
\* the pass, and their keys are merged afterwards
diffAndMergeBatch(currentContent, seen) ==
    LET keep(row) == IF joinKey(row) \notin seen THEN <<row>> ELSE <<>>
    IN [rows |-> concat([i \in 1..Len(currentContent) |-> keep(currentContent[i])]),
        content |-> seen \cup {joinKey(currentContent[i]) : i \in 1..Len(currentContent)}]

\* variant of diffAndMerge: the key is the first column alone
diffAndMergeFirstCol(currentContent, seen) ==
    LET firstCol == [i \in 1..Len(currentContent) |-> <<currentContent[i][1]>>]
        kept == diffAndMergeLoop(firstCol, seen, <<>>)
        keep(i) == IF joinKey(firstCol[i]) \notin seen
                      /\ \A j \in 1..(i - 1) : joinKey(firstCol[j]) # joinKey(firstCol[i])
                   THEN <<currentContent[i]>> ELSE <<>>
    IN [rows |-> concat([i \in 1..Len(currentContent) |-> keep(i)]), content |-> kept.content]

\* diffAndMerge: the rows returned and this.content afterwards
diffAndMerge(currentContent, seen) == diffAndMergeLoop(currentContent, seen, <<>>)

-----------------------------------------------------------------------------
(* Inputs *)

Values == {Null, Empty, <<" ">>, <<"x">>, <<",">>}

KidElms == [cls : {<<"b">>, <<"c">>}, val : Values, kids : {<<>>}]

BlockElms == [cls : {<<"a">>}, val : {Null}, kids : SeqsUpTo(KidElms, MaxKids)]

Docs == SeqsUpTo(BlockElms, MaxElems)

pair(selector) == [contentSelector |-> selector, contentProperty |-> "innerText"]

PairLists ==
    { <<pair(<<"a", " ", "b">>)>>,
      <<pair(<<"a", " ", "b">>), pair(<<"a", " ", "c">>)>>,
      <<pair(<<"b">>), pair(<<"c">>)>> }

-----------------------------------------------------------------------------
(* The engine: one instance, repeated apply calls *)

NoDocument == <<>>

Init ==
    /\ opts \in {[selectorPairs |-> p] : p \in PairLists}
    /\ document = NoDocument
    /\ content = {}
    /\ passes = <<>>
    /\ selectorsIn = <<>>
    /\ baseOut = <<>>
    /\ alignIn = <<>>
    /\ alignArg = <<>>
    /\ alignOut = <<>>

apply(doc) ==
    /\ Len(passes) < MaxPasses
    /\ LET currentContent == extractContent(doc, opts.selectorPairs)
           merged == diffAndMerge(currentContent.content, content)
       IN /\ document' = doc
          /\ content' = merged.content
          /\ passes' = Append(passes,
                [document |-> doc,
                 selectorBase |-> currentContent.selectorBase,
                 lists |-> currentContent.lists,
                 currentContent |-> currentContent.content,
                 seenBefore |-> content,
                 content |-> merged.rows])
    /\ UNCHANGED <<opts, baseVars, alignVars>>

Next == \E doc \in Docs : apply(doc)

Spec == Init /\ [][Next]_vars

-----------------------------------------------------------------------------
(* getSelectorBase on generated selector lists *)

Tokens == {<<"a">>, <<"a", "b">>, <<"b">>}

Selectors == {join(toks, <<" ">>) : toks \in SeqsUpTo(Tokens, MaxTokens) \ {<<>>}}

SelectorPairLists == {[j \in 1..Len(sels) |-> pair(sels[j])] : sels \in SeqsUpTo(Selectors, MaxPairs) \ {<<>>}}

InitBase ==
    /\ opts = [selectorPairs |-> <<>>]
    /\ document = NoDocument
    /\ content = {}
    /\ passes = <<>>
    /\ selectorsIn \in SelectorPairLists
    /\ baseOut = <<>>
    /\ alignIn = <<>>
    /\ alignArg = <<>>
    /\ alignOut = <<>>

callGetSelectorBase ==
    /\ baseOut = <<>>
    /\ baseOut' = <<getSelectorBase(selectorsIn)>>
    /\ UNCHANGED <<selectorsIn, engineVars, alignVars>>

NextBase == callGetSelectorBase

SpecBase == InitBase /\ [][NextBase]_vars

-----------------------------------------------------------------------------
(* transformToContentRows on generated value lists *)

AlignValues == {<<"x">>, <<"y">>}

AlignInputs == SeqsUpTo(SeqsUpTo(AlignValues, MaxLen), MaxCols) \ {<<>>}

InitAlign ==
    /\ opts = [selectorPairs |-> <<>>]
    /\ document = NoDocument
    /\ content = {}
    /\ passes = <<>>
    /\ selectorsIn = <<>>
    /\ baseOut = <<>>
    /\ alignIn \in AlignInputs
    /\ alignArg = alignIn
    /\ alignOut = <<>>

callTransformToContentRows ==
    /\ alignOut = <<>>
    /\ alignArg' = padLists(alignIn)
    /\ alignOut' = <<transformToContentRows(alignIn)>>
    /\ UNCHANGED <<alignIn, engineVars, baseVars>>

NextAlign == callTransformToContentRows

SpecAlign == InitAlign /\ [][NextAlign]_vars

-----------------------------------------------------------------------------
(* Properties of the engine (Spec) *)

NPasses == Len(passes)

keysOf(rows) == {joinKey(rows[i]) : i \in 1..Len(rows)}

removeAt(s, k) == SubSeq(s, 1, k - 1) \o SubSeq(s, k + 1, Len(s))

\* column value that is neither absent nor the empty string
nonEmptyCol(row) == \E i \in 1..Len(row) : Truthy(row[i])

\* C1: a row whose join key was returned by an earlier pass is never returned
\* by a later pass of the same instance, whatever trees the passes were given.
C1_NeverReEmitted ==
    \A p \in 1..NPasses : \A q \in (p + 1)..NPasses :
        keysOf(passes[p].content) \cap keysOf(passes[q].content) = {}

\* a later pass on a different tree computed a row already returned, and
\* returned other rows
C1_Witness ==
    /\ NPasses = 2
    /\ passes[1].document # passes[2].document
    /\ passes[1].content # <<>>
    /\ passes[2].content # <<>>
    /\ keysOf(passes[1].content) \cap keysOf(passes[2].currentContent) # {}

\* C2: a pass on the same tree as the pass before it returns no row.
C2_SecondPassEmpty ==
    \A q \in 2..NPasses :
        passes[q].document = passes[q - 1].document => passes[q].content = <<>>

\* two passes on one tree, the first of which returned rows
C2_Witness ==
    /\ NPasses = 2
    /\ passes[1].document = passes[2].document
    /\ Len(passes[1].content) >= 2
    /\ passes[2].currentContent # <<>>

\* pass q computed the rows of pass q-1 plus one row, at position k
onePlusRow(q, k) ==
    /\ q \in 2..NPasses
    /\ k \in 1..Len(passes[q].currentContent)
    /\ removeAt(passes[q].currentContent, k) = passes[q - 1].currentContent

\* the column values of a row as strings, an absent value being written ''
written(row) == [i \in 1..Len(row) |-> IF row[i] = Null THEN Empty ELSE row[i]]

\* C3 as stated: when a pass computes the rows R of the pass before plus one
\* row that differs, as a tuple of column values, from every row of R, it
\* returns exactly that row.  (Column values are compared as strings, so a
\* row is not counted as new for holding an absent value where a row of R
\* holds the empty string.)
C3_DistinctTupleReturned ==
    \A q \in 2..NPasses : \A k \in 1..Len(passes[q].currentContent) :
        (/\ onePlusRow(q, k)
         /\ written(passes[q].currentContent[k]) \notin
                {written(passes[q - 1].currentContent[j]) : j \in 1..Len(passes[q - 1].currentContent)})
            => passes[q].content = <<passes[q].currentContent[k]>>

\* C3 amended: when a pass computes the rows R of the pass before plus one
\* row, it returns exactly that row if the row's join key is not in the
\* seen-set, and no row if it is.
C3_NewKeyReturned ==
    \A q \in 2..NPasses : \A k \in 1..Len(passes[q].currentContent) :
        onePlusRow(q, k) =>
            passes[q].content =
                IF joinKey(passes[q].currentContent[k]) \notin passes[q].seenBefore
                THEN <<passes[q].currentContent[k]>>
                ELSE <<>>

\* a second pass computed two-column rows R, not empty, plus one row of a new
\* key, and returned it
C3_Witness ==
    /\ NPasses = 2
    /\ passes[1].currentContent # <<>>
    /\ \E k \in 1..Len(passes[2].currentContent) :
          /\ onePlusRow(2, k)
          /\ Len(passes[2].currentContent[k]) = 2
          /\ joinKey(passes[2].currentContent[k]) \notin passes[2].seenBefore
          /\ passes[2].content = <<passes[2].currentContent[k]>>

\* C4 as stated: no returned row has every column empty, in scoped and in
\* global mode.
C4_NoAllEmptyRow ==
    \A q \in 1..NPasses : \A i \in 1..Len(passes[q].content) :
        nonEmptyCol(passes[q].content[i])

\* C6: with a single selector pair no base is inferred, and the pass computes
\* one row per element the selector matches in the whole tree.
C6_SinglePairGlobal ==
    \A q \in 1..NPasses :
        Len(opts.selectorPairs) = 1 =>
            LET found == querySelectorAll(passes[q].document, opts.selectorPairs[1].contentSelector)
            IN /\ passes[q].selectorBase = Null
               /\ Len(passes[q].currentContent) = Len(found)
               /\ \A k \in 1..Len(found) :
                     passes[q].currentContent[k] = <<readValue(found[k], opts.selectorPairs[1].contentProperty)>>

\* a pass with a single selector pair on a tree where the selector matches
C6_Witness ==
    /\ NPasses >= 1
    /\ Len(opts.selectorPairs) = 1
    /\ Len(querySelectorAll(passes[1].document, opts.selectorPairs[1].contentSelector)) = 2
    /\ Len(passes[1].currentContent) = 2

\* C9 as stated: in global mode the value lists hold no empty or absent
\* value before alignment.
C9_GlobalListsFiltered ==
    \A q \in 1..NPasses :
        passes[q].selectorBase = Null =>
            \A i \in 1..Len(passes[q].lists[1]) : \A k \in 1..Len(passes[q].lists[1][i]) :
                Truthy(passes[q].lists[1][i][k])

\* the seen-set after pass q
seenAfter(q) == IF q = NPasses THEN content ELSE passes[q + 1].seenBefore

\* kept is the subsequence of rows at the first occurrence of each key not in seen
firstOccurrences(rows, seen, kept) ==
    \E I \in SUBSET (1..Len(rows)) :
        /\ \A i \in 1..Len(rows) :
              i \in I <=> /\ joinKey(rows[i]) \notin seen
                          /\ \A j \in 1..(i - 1) : joinKey(rows[j]) # joinKey(rows[i])
        /\ Len(kept) = Cardinality(I)
        /\ \A n \in 1..Len(kept) :
              \E i \in I : Cardinality({j \in I : j <= i}) = n /\ kept[n] = rows[i]

\* C10: the seen-set starts empty and is exactly the set of join keys of the
\* rows returned so far, each pass adding the keys of the rows it returns and
\* nothing else; the rows a pass returns are the subsequence of its computed
\* rows at the first occurrence of each new key, with pairwise distinct keys.
C10_SeenSetIsReturnedKeys ==
    /\ content = UNION {keysOf(passes[q].content) : q \in 1..NPasses}
    /\ \A q \in 1..NPasses :
          /\ passes[q].seenBefore = UNION {keysOf(passes[p].content) : p \in 1..(q - 1)}
          /\ seenAfter(q) = passes[q].seenBefore \cup keysOf(passes[q].content)
          /\ Cardinality(keysOf(passes[q].content)) = Len(passes[q].content)
          /\ firstOccurrences(passes[q].currentContent, passes[q].seenBefore, passes[q].content)

\* a pass computed the same key twice and returned it once, after a pass
\* that had returned another key
C10_Witness ==
    /\ NPasses = 2
    /\ passes[1].content # <<>>
    /\ Len(passes[2].currentContent) = 2
    /\ Len(passes[2].content) = 1
    /\ Cardinality(keysOf(passes[2].currentContent)) = 1
    /\ Cardinality(content) = 2

-----------------------------------------------------------------------------
(* Properties of getSelectorBase (SpecBase) *)

firstToken(selector) == Head(split(selector, <<" ">>))

\* C5 as stated: for selector pairs whose selectors have different first
\* whitespace-delimited tokens, getSelectorBase returns none.
C5_NoCommonTokenNoBase ==
    (/\ baseOut # <<>>
     /\ Len(selectorsIn) = 2
     /\ firstToken(selectorsIn[1].contentSelector) # firstToken(selectorsIn[2].contentSelector))
        => baseOut[1] = Null

-----------------------------------------------------------------------------
(* Properties of transformToContentRows (SpecAlign) *)

maxLen(lists) == Max({Len(lists[i]) : i \in 1..Len(lists)})

\* C7: N value lists give max(L1..LN) rows of N columns each, row r column i
\* being element r of list i as padded.
C7_RowsAreTransposedPaddedLists ==
    alignOut # <<>> =>
        LET rows == alignOut[1]
        IN /\ Len(rows) = maxLen(alignIn)
           /\ Len(alignArg) = Len(alignIn)
           /\ \A i \in 1..Len(alignArg) : Len(alignArg[i]) = maxLen(alignIn)
           /\ \A r \in 1..Len(rows) :
                 /\ Len(rows[r]) = Len(alignIn)
                 /\ \A i \in 1..Len(alignIn) : rows[r][i] = alignArg[i][r]

\* two lists, the second longer than the first, aligned
C7_Witness ==
    /\ alignOut # <<>>
    /\ Len(alignIn) = 2
    /\ Len(alignIn[1]) = 1
    /\ Len(alignIn[2]) = 3
    /\ Len(alignOut[1]) = 3

\* C8: in the rows, a column keeps the values of its list at the list's own
\* indices, and beyond them holds the list's last value, or the empty string
\* for an empty list.
C8_PaddedTailRepeatsLast ==
    alignOut # <<>> =>
        \A i \in 1..Len(alignIn) : \A r \in 1..Len(alignOut[1]) :
            alignOut[1][r][i] =
                IF r <= Len(alignIn[i]) THEN alignIn[i][r]
                ELSE IF Len(alignIn[i]) > 0 THEN alignIn[i][Len(alignIn[i])]
                ELSE Empty

\* a list of two different values padded to three, beside a full list
C8_Witness ==
    /\ alignOut # <<>>
    /\ Len(alignIn) = 2
    /\ Len(alignIn[1]) = 3
    /\ Len(alignIn[2]) = 2
    /\ alignIn[2][1] # alignIn[2][2]
    /\ alignOut[1][3][2] = alignIn[2][2]

====
